---- MODULE Spec2Model ----
(***************************************************************************)
(* Model of build-system/tasks/runtime-test.js: the gulp 'test' task.      *)
(*                                                                         *)
(*   getConfig      -> GetConfig / GetConfigStep                           *)
(*   getAdTypes     -> GetAdTypes / GetAdTypesCall                         *)
(*   applyAmpConfig -> ApplyAmpConfigCall, RemoveConfigDone,               *)
(*                     ApplyConfigDone, PatchRejected                      *)
(*   runTests       -> GetConfigStep ; RunTestsBody                        *)
(*   gulp.task      -> Spec (the .then chain is the order of the stages)   *)
(*   Karma callback -> KarmaDone ; the deferred process.exit() -> NextTick *)
(*                                                                         *)
(* Flags that only change c.client, the coverage settings, the messages    *)
(* printed or the tasks run before this one (--verbose, --compiled,        *)
(* --grep, --coverage, --nohelp, --nobuild, --config) are not part of argv *)
(* here, nor is --testnames, which only replaces c.reporters after         *)
(* getConfig returned.                                                     *)
(***************************************************************************)
EXTENDS Integers, Sequences, FiniteSets, TLC

VARIABLES
  argv,            \* parsed command line (minimist), fixed for a run
  sauceEnv,        \* what getConfig read of process.env.SAUCE_*
  pc,              \* position of the task
  patch,           \* per target file: existsSync result, removeConfig/applyConfig progress
  c,               \* the Karma configuration object built by runTests
  thrown,          \* message of the Error thrown ("" when none)
  globbed,         \* concatenated result of glob.sync over the test paths
  seedUsed,        \* <<s>> once a seed was passed to shuffleSeed.shuffle
  seedLogged,      \* <<s>> once a seed was echoed in the log
  serverStarted,   \* the fake-response server (port 31862) was created
  karmaConstructed,\* new Karma(c, cb) was evaluated
  karmaStarted,    \* .start() was called on it
  killEmitted,     \* server.emit('kill') happened
  nextTickQueue,   \* number of queued process.nextTick callbacks
  karmaExitCode,   \* <<e>> once Karma's completion callback fired with e
  deferredResolved,\* resolver() was called
  exitStatus,      \* <<s>> once the process exited with status s
  files,           \* listing of ./ads/ (fs.readdirSync)
  adTypes          \* result of getAdTypes (<<>> before the call)

vars == <<argv, sauceEnv, pc, patch, c, thrown, globbed, seedUsed, seedLogged,
          serverStarted, karmaConstructed, karmaStarted, killEmitted,
          nextTickQueue, karmaExitCode, deferredResolved, exitStatus,
          files, adTypes>>

----------------------------------------------------------------------------
(* Bounds of the model *)

\* Seed values are 0..MaxSeed; 0 is the number zero, the others are non-zero.
MaxSeed == 1
\* Longest list glob.sync returns.
MaxGlob == 2
\* Largest exit code Karma reports.
MaxExitCode == 1
\* Longest listing of ./ads/.
MaxListing == 2

Seeds == 0..MaxSeed
ExitCodes == 0..MaxExitCode

----------------------------------------------------------------------------
(* Sequence helpers *)

Range(s) == {s[i] : i \in 1..Len(s)}

Last(s) == s[Len(s)]

\* Array.prototype.indexOf: the 0-based index of the first x, -1 when absent.
IndexOf(s, x) ==
  IF \E i \in 1..Len(s) : s[i] = x
  THEN (CHOOSE i \in 1..Len(s) : s[i] = x /\ \A j \in 1..(i - 1) : s[j] # x) - 1
  ELSE -1

RemoveAt(s, k) == SubSeq(s, 1, k - 1) \o SubSeq(s, k + 1, Len(s))

\* Array.prototype.splice(start, 1) with a JavaScript (0-based) start index:
\* a negative start counts from the end of the array (clamped at 0), a start
\* beyond the end removes nothing.
Splice1(s, start) ==
  LET from == IF start < 0
              THEN (IF Len(s) + start < 0 THEN 0 ELSE Len(s) + start)
              ELSE (IF start > Len(s) THEN Len(s) ELSE start)
  IN  IF from < Len(s) THEN RemoveAt(s, from + 1) ELSE s

\* The sequences of a set that repeat no element.
NoRepeat(T) == {t \in T : \A i, j \in 1..Len(t) : i # j => t[i] # t[j]}

\* All sequences over S of length at most n.
RECURSIVE SeqsUpTo(_, _)
SeqsUpTo(S, n) ==
  IF n = 0 THEN {<<>>}
  ELSE LET shorter == SeqsUpTo(S, n - 1)
       IN  shorter \cup {Append(s, x) : s \in shorter, x \in S}

----------------------------------------------------------------------------
(* Inputs: the command line *)

\* argv.files is <<>> when --files is absent, else the paths given.
\* argv.seed is <<>> when --seed is absent, else <<s>>.
Argvs ==
  [safari : BOOLEAN, firefox : BOOLEAN, edge : BOOLEAN, ie : BOOLEAN,
   saucelabs : BOOLEAN, saucelabs_lite : BOOLEAN,
   integration : BOOLEAN, unit : BOOLEAN,
   files : {<<>>, <<"test/functional/test-x.js">>},
   randomize : BOOLEAN, glob : BOOLEAN, a4a : BOOLEAN,
   seed : {<<>>} \cup {<<s>> : s \in Seeds},
   watch : BOOLEAN]

\* The command line without any flag.
NoFlags ==
  [safari |-> FALSE, firefox |-> FALSE, edge |-> FALSE, ie |-> FALSE,
   saucelabs |-> FALSE, saucelabs_lite |-> FALSE,
   integration |-> FALSE, unit |-> FALSE, files |-> <<>>,
   randomize |-> FALSE, glob |-> FALSE, a4a |-> FALSE, seed |-> <<>>,
   watch |-> FALSE]

----------------------------------------------------------------------------
(* build-system/config.js and karma.conf.js: path lists and defaults, kept  *)
(* as opaque, pairwise distinct tokens.                                     *)

chaiAsPromised == <<"config.chaiAsPromised">>
commonTestPaths == <<"config.commonTestPaths">>
integrationTestPaths == <<"config.integrationTestPaths">>
unitTestPaths == <<"config.unitTestPaths">>
unitTestOnSaucePaths == <<"config.unitTestOnSaucePaths">>
testPaths == <<"config.testPaths">>
simpleTestPath == <<"config.simpleTestPath">>

initTests == "test/_init_tests.js"

\* Files glob.sync can find under config.a4aTestPaths / config.basicTestPaths.
GlobFiles == {initTests, "test/functional/test-a.js", "test/functional/test-b.js"}
GlobResults == NoRepeat(SeqsUpTo(GlobFiles, MaxGlob))

karmaDefault ==
  [browsers |-> <<"karmaDefault.browsers">>,
   reporters |-> <<"karmaDefault.reporters">>,
   singleRun |-> TRUE,
   files |-> <<>>,
   adTypes |-> <<>>]

SauceLabsBrowsers ==
  <<"SL_Chrome_android", "SL_Chrome_latest", "SL_Chrome_45", "SL_Firefox_latest",
    "SL_Safari_latest", "SL_Safari_10", "SL_Safari_9", "SL_iOS_latest",
    "SL_iOS_10_0", "SL_iOS_9_1", "SL_Edge_latest", "SL_IE_11">>

SauceLabsLiteBrowsers == <<"SL_Safari_latest">>

SauceReporters == <<"super-dots", "saucelabs", "karmaSimpleReporter">>

MissingUsername == "Missing SAUCE_USERNAME Env variable"
MissingAccessKey == "Missing SAUCE_ACCESS_KEY Env variable"

\* process.env as getConfig sees it: each credential set or not.
Envs == [SAUCE_USERNAME : BOOLEAN, SAUCE_ACCESS_KEY : BOOLEAN]
EnvNotRead == [read |-> FALSE, SAUCE_USERNAME |-> FALSE, SAUCE_ACCESS_KEY |-> FALSE]

----------------------------------------------------------------------------
(* getConfig *)

\* Whether getConfig reaches the reads of process.env.
ReadsEnv(a) ==
  ~a.safari /\ ~a.firefox /\ ~a.edge /\ ~a.ie /\ (a.saucelabs \/ a.saucelabs_lite)

\* Mutant: the remote-lab branch is tested before the browser flags.
M_GetConfig(a, env) ==
  IF a.saucelabs \/ a.saucelabs_lite
    THEN IF ~env.SAUCE_USERNAME THEN [error |-> MissingUsername, config |-> karmaDefault]
         ELSE IF ~env.SAUCE_ACCESS_KEY THEN [error |-> MissingAccessKey, config |-> karmaDefault]
         ELSE [error |-> "",
               config |-> [karmaDefault EXCEPT
                             !.reporters = SauceReporters,
                             !.browsers = IF a.saucelabs THEN SauceLabsBrowsers
                                          ELSE SauceLabsLiteBrowsers]]
  ELSE IF a.safari THEN [error |-> "", config |-> [karmaDefault EXCEPT !.browsers = <<"Safari">>]]
  ELSE IF a.firefox THEN [error |-> "", config |-> [karmaDefault EXCEPT !.browsers = <<"Firefox">>]]
  ELSE IF a.edge THEN [error |-> "", config |-> [karmaDefault EXCEPT !.browsers = <<"Edge">>]]
  ELSE IF a.ie THEN [error |-> "", config |-> [karmaDefault EXCEPT !.browsers = <<"IE">>]]
  ELSE [error |-> "", config |-> karmaDefault]

\* The result of getConfig: a thrown Error (error # "") or the configuration.
GetConfig(a, env) ==
  IF a.safari THEN [error |-> "", config |-> [karmaDefault EXCEPT !.browsers = <<"Safari">>]]
  ELSE IF a.firefox THEN [error |-> "", config |-> [karmaDefault EXCEPT !.browsers = <<"Firefox">>]]
  ELSE IF a.edge THEN [error |-> "", config |-> [karmaDefault EXCEPT !.browsers = <<"Edge">>]]
  ELSE IF a.ie THEN [error |-> "", config |-> [karmaDefault EXCEPT !.browsers = <<"IE">>]]
  ELSE IF a.saucelabs \/ a.saucelabs_lite
    THEN IF ~env.SAUCE_USERNAME THEN [error |-> MissingUsername, config |-> karmaDefault]
         ELSE IF ~env.SAUCE_ACCESS_KEY THEN [error |-> MissingAccessKey, config |-> karmaDefault]
         ELSE [error |-> "",
               config |-> [karmaDefault EXCEPT
                             !.reporters = SauceReporters,
                             !.browsers = IF a.saucelabs THEN SauceLabsBrowsers
                                          ELSE SauceLabsLiteBrowsers]]
  ELSE [error |-> "", config |-> karmaDefault]

----------------------------------------------------------------------------
(* getAdTypes.  File names and type identifiers are sequences of characters, *)
(* so that path.extname, path.basename and files[i][0] are computed.        *)

F_adblade == <<"a", "d", "b", "l", "a", "d", "e", ".", "j", "s">>
F_mantis == <<"m", "a", "n", "t", "i", "s", ".", "j", "s">>
F_weborama == <<"w", "e", "b", "o", "r", "a", "m", "a", ".", "j", "s">>
F_a9 == <<"a", "9", ".", "j", "s">>
F_ping == <<"_", "p", "i", "n", "g", "_", ".", "j", "s">>
F_extern == <<"a", "d", "s", ".", "e", "x", "t", "e", "r", "n", ".", "j", "s">>
F_readme == <<"R", "E", "A", "D", "M", "E", ".", "m", "d">>
F_inabox == <<"i", "n", "a", "b", "o", "x">>
F_toString == <<"t", "o", "S", "t", "r", "i", "n", "g", ".", "j", "s">>
T_adsense == <<"a", "d", "s", "e", "n", "s", "e">>
T_doubleclick == <<"d", "o", "u", "b", "l", "e", "c", "l", "i", "c", "k">>
T_adblade == <<"a", "d", "b", "l", "a", "d", "e">>
T_industrybrains == <<"i", "n", "d", "u", "s", "t", "r", "y", "b", "r", "a", "i", "n", "s">>
T_mantis == <<"m", "a", "n", "t", "i", "s">>
T_mantis_display == <<"m", "a", "n", "t", "i", "s", "-", "d", "i", "s", "p", "l", "a", "y">>
T_mantis_recommend == <<"m", "a", "n", "t", "i", "s", "-", "r", "e", "c", "o", "m", "m", "e", "n", "d">>
T_weborama == <<"w", "e", "b", "o", "r", "a", "m", "a">>
T_weborama_display == <<"w", "e", "b", "o", "r", "a", "m", "a", "-", "d", "i", "s", "p", "l", "a", "y">>
T_toString == <<"t", "o", "S", "t", "r", "i", "n", "g">>
ExtJs == <<".", "j", "s">>

\* Entries fs.readdirSync('./ads/') can return: implementation files, private
\* files, the externs file, a non-js file and a directory.
AdsDirEntries ==
  {F_adblade, F_mantis, F_weborama, F_a9, F_ping, F_extern, F_readme, F_inabox,
   F_toString}

Listings == SeqsUpTo(AdsDirEntries, MaxListing)

\* 1-based position of the last "." of f, 0 when there is none.
LastDot(f) ==
  IF \E i \in 1..Len(f) : f[i] = "."
  THEN CHOOSE i \in 1..Len(f) : f[i] = "." /\ \A j \in (i + 1)..Len(f) : f[j] # "."
  ELSE 0

\* path.extname: from the last "." to the end; "" when there is no "." or
\* the only "." is the first character.
ExtName(f) ==
  IF LastDot(f) <= 1 THEN <<>> ELSE SubSeq(f, LastDot(f), Len(f))

\* path.basename(f, ext) for a name without directory part.
BaseName(f, ext) ==
  IF Len(f) > Len(ext) /\ SubSeq(f, Len(f) - Len(ext) + 1, Len(f)) = ext
  THEN SubSeq(f, 1, Len(f) - Len(ext))
  ELSE f

\* The condition of the if in the loop of getAdTypes.
IsAdFile(f) == ExtName(f) = ExtJs /\ f[1] # "_" /\ f # F_extern

\* namingExceptions[adType]: found says whether the value is truthy, types
\* holds expanded[0..expanded.length-1].  The table is an object literal, so
\* the lookup also finds what Object.prototype defines: toString is a
\* function, which is truthy and has length 0.
NamingExceptions(adType) ==
  IF adType = T_adblade THEN [found |-> TRUE, types |-> <<T_adblade, T_industrybrains>>]
  ELSE IF adType = T_mantis THEN [found |-> TRUE, types |-> <<T_mantis_display, T_mantis_recommend>>]
  ELSE IF adType = T_weborama THEN [found |-> TRUE, types |-> <<T_weborama_display>>]
  ELSE IF adType = T_toString THEN [found |-> TRUE, types |-> <<>>]
  ELSE [found |-> FALSE, types |-> <<>>]

\* What one iteration of the loop pushes for files[i].
AdTypesOfFile(f) ==
  IF IsAdFile(f)
  THEN LET adType == BaseName(f, ExtJs)
           expanded == NamingExceptions(adType)
       IN  IF expanded.found THEN expanded.types ELSE <<adType>>
  ELSE <<>>

\* The loop over files[i], i = from .. files.length, pushing onto acc.
RECURSIVE AdTypesLoop(_, _, _)
AdTypesLoop(listing, i, acc) ==
  IF i > Len(listing) THEN acc
  ELSE AdTypesLoop(listing, i + 1, acc \o AdTypesOfFile(listing[i]))

GetAdTypes(listing) == AdTypesLoop(listing, 1, <<T_adsense, T_doubleclick>>)

----------------------------------------------------------------------------
(* runTests: file selection *)

\* The stream of the seeded generator shuffle-seed draws from.
Rng(seed, i) == (seed * 5 + i * 3 + seed * i + 1) % 7

\* shuffleSeed.shuffle: repeatedly draws one of the remaining positions.
RECURSIVE ShuffleFrom(_, _, _, _)
ShuffleFrom(arr, keys, seed, i) ==
  IF keys = <<>> THEN <<>>
  ELSE LET r == (Rng(seed, i) % Len(keys)) + 1
       IN  <<arr[keys[r]]>> \o ShuffleFrom(arr, RemoveAt(keys, r), seed, i + 1)

Shuffle(arr, seed) == ShuffleFrom(arr, [k \in 1..Len(arr) |-> k], seed, 0)

\* Mutant: the check tests the wrong lab flag.
M_SauceLabsWithoutIntegration(a) == a.saucelabs_lite /\ ~a.integration

\* argv.saucelabs && !argv.integration
SauceLabsWithoutIntegration(a) == a.saucelabs /\ ~a.integration

\* The branch of line 246 is the one taken.
GlobMode(a) ==
  a.files = <<>> /\ ~a.integration /\ ~a.unit /\ (a.randomize \/ a.glob \/ a.a4a)

\* argv.randomize || argv.a4a, inside that branch.
Shuffles(a) == GlobMode(a) /\ (a.randomize \/ a.a4a)

\* argv.seed || Math.random(), rnd being the value Math.random() returns.
SeedFor(a, rnd) ==
  IF a.seed # <<>> /\ a.seed[1] # 0 THEN a.seed[1] ELSE rnd

\* testFiles after the optional shuffle and the splice.
GlobbedTestFiles(a, g, rnd) ==
  LET testFiles == IF a.randomize \/ a.a4a THEN Shuffle(g, SeedFor(a, rnd)) ELSE g
  IN  Splice1(testFiles, IndexOf(testFiles, initTests))

\* Mutant: the integration branch is tested before the --files branch.
M_SelectFiles(a, g, rnd) ==
  LET base == IF a.saucelabs THEN <<>> ELSE chaiAsPromised
  IN  IF a.integration THEN base \o integrationTestPaths
      ELSE IF a.files # <<>> THEN base \o commonTestPaths \o a.files
      ELSE IF a.unit
        THEN IF a.saucelabs_lite THEN base \o unitTestOnSaucePaths
             ELSE base \o unitTestPaths
      ELSE IF a.randomize \/ a.glob \/ a.a4a
        THEN base \o (commonTestPaths \o GlobbedTestFiles(a, g, rnd))
      ELSE base \o testPaths

\* c.files after the if / else-if chain of lines 230-271.
SelectFiles(a, g, rnd) ==
  LET base == IF a.saucelabs THEN <<>> ELSE chaiAsPromised
  IN  IF a.files # <<>> THEN base \o commonTestPaths \o a.files
      ELSE IF a.integration THEN base \o integrationTestPaths
      ELSE IF a.unit
        THEN IF a.saucelabs_lite THEN base \o unitTestOnSaucePaths
             ELSE base \o unitTestPaths
      ELSE IF a.randomize \/ a.glob \/ a.a4a
        THEN base \o (commonTestPaths \o GlobbedTestFiles(a, g, rnd))
      ELSE base \o testPaths

\* Mutant: the simple test is appended for --saucelabs only.
M_AppendSimpleTest(a, f) ==
  IF a.saucelabs THEN f \o simpleTestPath ELSE f

\* Lines 275-277: the simple passing test for Sauce Labs runs.
AppendSimpleTest(a, f) ==
  IF a.saucelabs \/ a.saucelabs_lite THEN f \o simpleTestPath ELSE f

\* c.reporters after line 234-236.
ReportersAfterFiles(a, reporters) ==
  IF a.files # <<>> /\ ~a.saucelabs /\ ~a.saucelabs_lite THEN <<"mocha">> ELSE reporters

\* process.exit(code): code is <<>> when the argument is omitted; the exit
\* status is then process.exitCode, which nothing sets, hence 0.
ProcessExit(code) == IF code = <<>> THEN <<0>> ELSE code

\* Mutant: the callback calls process.exit() without the exit code.
M_KarmaExitArg(exitCode) == <<>>

\* The argument of process.exit in Karma's completion callback (line 354).
KarmaExitArg(exitCode) == <<exitCode>>

----------------------------------------------------------------------------
(* State *)

TargetFiles == {"dist/amp.js", "dist/v0.js"}

NotPatched == [exists |-> "unknown", removeConfig |-> "none", applyConfig |-> "none"]
Patched == [exists |-> "yes", removeConfig |-> "done", applyConfig |-> "done"]
Skipped == [exists |-> "no", removeConfig |-> "none", applyConfig |-> "none"]

\* The stage at which applyAmpConfig(f) is called, and the one its promise
\* hands over to (the .then chain of the 'test' task).
StageOf(f) == IF f = "dist/amp.js" THEN "patch_amp" ELSE "patch_v0"
\* Mutant: the task calls runTests right after the first applyAmpConfig.
M_NextStage(f) == "runTests"

NextStage(f) == IF f = "dist/amp.js" THEN "patch_v0" ELSE "runTests"

Alive == exitStatus = <<>>

InitRest ==
  /\ sauceEnv = EnvNotRead
  /\ c = karmaDefault
  /\ thrown = ""
  /\ globbed = <<>>
  /\ seedUsed = <<>>
  /\ seedLogged = <<>>
  /\ serverStarted = FALSE
  /\ karmaConstructed = FALSE
  /\ karmaStarted = FALSE
  /\ killEmitted = FALSE
  /\ nextTickQueue = 0
  /\ karmaExitCode = <<>>
  /\ deferredResolved = FALSE
  /\ exitStatus = <<>>
  /\ adTypes = <<>>

\* The 'test' task at its start, under every command line.
Init ==
  /\ argv \in Argvs
  /\ pc = "patch_amp"
  /\ patch = [f \in TargetFiles |-> NotPatched]
  /\ files = <<F_a9, F_adblade>>
  /\ InitRest

\* getAdTypes alone, over every listing of ./ads/.
InitAdTypes ==
  /\ argv = NoFlags
  /\ pc = "getAdTypes"
  /\ patch = [f \in TargetFiles |-> Patched]
  /\ files \in Listings
  /\ InitRest

----------------------------------------------------------------------------
(* applyAmpConfig *)

runVars == <<sauceEnv, c, thrown, globbed, seedUsed, seedLogged, serverStarted,
             karmaConstructed, karmaStarted, killEmitted, nextTickQueue,
             karmaExitCode, deferredResolved, exitStatus, adTypes>>

\* applyAmpConfig(f) up to its return: fs.existsSync, then either the call of
\* removeConfig or Promise.resolve().
ApplyAmpConfigCall(f) ==
  /\ Alive
  /\ pc = StageOf(f)
  /\ patch[f].exists = "unknown"
  /\ \E ex \in BOOLEAN :
       IF ex
       THEN /\ patch' = [patch EXCEPT ![f] = [exists |-> "yes", removeConfig |-> "running",
                                               applyConfig |-> "none"]]
            /\ pc' = pc
       ELSE /\ patch' = [patch EXCEPT ![f] = Skipped]
            /\ pc' = NextStage(f)
  /\ UNCHANGED <<argv, files>>
  /\ UNCHANGED runVars

\* removeConfig(f) resolves: its .then callback calls applyConfig.
RemoveConfigDone(f) ==
  /\ Alive
  /\ pc = StageOf(f)
  /\ patch[f].removeConfig = "running"
  /\ patch' = [patch EXCEPT ![f].removeConfig = "done", ![f].applyConfig = "running"]
  /\ UNCHANGED <<argv, files, pc>>
  /\ UNCHANGED runVars

\* applyConfig(...) resolves: the promise of applyAmpConfig(f) resolves.
ApplyConfigDone(f) ==
  /\ Alive
  /\ pc = StageOf(f)
  /\ patch[f].applyConfig = "running"
  /\ patch' = [patch EXCEPT ![f].applyConfig = "done"]
  /\ pc' = NextStage(f)
  /\ UNCHANGED <<argv, files>>
  /\ UNCHANGED runVars

\* removeConfig or applyConfig rejects: the chain of the task rejects and
\* none of the later .then callbacks runs.
PatchRejected(f) ==
  /\ Alive
  /\ pc = StageOf(f)
  /\ \/ /\ patch[f].removeConfig = "running"
        /\ patch' = [patch EXCEPT ![f].removeConfig = "failed"]
     \/ /\ patch[f].applyConfig = "running"
        /\ patch' = [patch EXCEPT ![f].applyConfig = "failed"]
  /\ pc' = "rejected"
  /\ UNCHANGED <<argv, files>>
  /\ UNCHANGED runVars

----------------------------------------------------------------------------
(* runTests *)

\* const c = getConfig();  a throw leaves runTests (and rejects the task).
GetConfigStep ==
  /\ Alive
  /\ pc = "runTests"
  /\ \E env \in (IF ReadsEnv(argv) THEN Envs ELSE {[SAUCE_USERNAME |-> FALSE, SAUCE_ACCESS_KEY |-> FALSE]}) :
       LET got == GetConfig(argv, env)
       IN  /\ sauceEnv' = IF ReadsEnv(argv)
                          THEN [read |-> TRUE, SAUCE_USERNAME |-> env.SAUCE_USERNAME,
                                SAUCE_ACCESS_KEY |-> env.SAUCE_ACCESS_KEY]
                          ELSE sauceEnv
           /\ IF got.error # ""
              THEN /\ thrown' = got.error
                   /\ pc' = "thrown"
                   /\ c' = c
              ELSE /\ thrown' = thrown
                   /\ pc' = "configured"
                   /\ c' = got.config
  /\ UNCHANGED <<argv, files, patch, globbed, seedUsed, seedLogged, serverStarted,
                 karmaConstructed, karmaStarted, killEmitted, nextTickQueue,
                 karmaExitCode, deferredResolved, exitStatus, adTypes>>

\* The rest of runTests, lines 208-381: it runs to its return (or to
\* process.exit) without yielding.
RunTestsBody ==
  /\ Alive
  /\ pc = "configured"
  /\ IF SauceLabsWithoutIntegration(argv)
     THEN /\ c' = [c EXCEPT !.singleRun = IF argv.watch THEN FALSE ELSE @]
          /\ exitStatus' = ProcessExit(<<>>)
          /\ pc' = "exited"
          /\ UNCHANGED <<globbed, seedUsed, seedLogged, serverStarted,
                         karmaConstructed, karmaStarted, adTypes>>
     ELSE \E g \in (IF GlobMode(argv) THEN GlobResults ELSE {<<>>}) :
          \E rnd \in (IF Shuffles(argv) THEN Seeds ELSE {0}) :
            /\ globbed' = g
            /\ seedUsed' = IF Shuffles(argv) THEN <<SeedFor(argv, rnd)>> ELSE <<>>
            /\ seedLogged' = IF Shuffles(argv) THEN <<SeedFor(argv, rnd)>> ELSE <<>>
            /\ adTypes' = GetAdTypes(files)
            /\ c' = [c EXCEPT
                       !.singleRun = IF argv.watch THEN FALSE ELSE @,
                       !.reporters = ReportersAfterFiles(argv, @),
                       !.files = AppendSimpleTest(argv, SelectFiles(argv, g, rnd)),
                       !.adTypes = GetAdTypes(files)]
            /\ serverStarted' = TRUE
            /\ karmaConstructed' = TRUE
            /\ karmaStarted' = TRUE
            /\ exitStatus' = exitStatus
            /\ pc' = "running"
  /\ UNCHANGED <<argv, files, patch, sauceEnv, thrown, killEmitted, nextTickQueue,
                 karmaExitCode, deferredResolved>>

\* Karma's completion callback: the 'kill' handler runs synchronously inside
\* emit and queues its process.exit() with process.nextTick.
KarmaDone(exitCode) ==
  /\ Alive
  /\ pc = "running"
  /\ karmaExitCode' = <<exitCode>>
  /\ killEmitted' = TRUE
  /\ nextTickQueue' = nextTickQueue + 1
  /\ IF exitCode # 0
     THEN /\ exitStatus' = ProcessExit(KarmaExitArg(exitCode))
          /\ pc' = "exited"
          /\ deferredResolved' = deferredResolved
     ELSE /\ deferredResolved' = TRUE
          /\ pc' = "resolved"
          /\ exitStatus' = exitStatus
  /\ UNCHANGED <<argv, files, patch, sauceEnv, c, thrown, globbed, seedUsed,
                 seedLogged, serverStarted, karmaConstructed, karmaStarted, adTypes>>

\* The callback queued by the 'kill' handler: process.exit().  It runs only
\* while the process is alive, before any promise reaction.
NextTick ==
  /\ Alive
  /\ nextTickQueue > 0
  /\ nextTickQueue' = nextTickQueue - 1
  /\ exitStatus' = ProcessExit(<<>>)
  /\ pc' = "exited"
  /\ UNCHANGED <<argv, files, patch, sauceEnv, c, thrown, globbed, seedUsed,
                 seedLogged, serverStarted, karmaConstructed, karmaStarted,
                 killEmitted, karmaExitCode, deferredResolved, adTypes>>

\* getAdTypes called on its own.
GetAdTypesCall ==
  /\ pc = "getAdTypes"
  /\ adTypes' = GetAdTypes(files)
  /\ pc' = "adTypesDone"
  /\ UNCHANGED <<argv, files, patch, sauceEnv, c, thrown, globbed, seedUsed,
                 seedLogged, serverStarted, karmaConstructed, karmaStarted,
                 killEmitted, nextTickQueue, karmaExitCode, deferredResolved,
                 exitStatus>>

----------------------------------------------------------------------------
(* Specifications *)

RunTestsNext ==
  \/ GetConfigStep
  \/ RunTestsBody
  \/ \E e \in ExitCodes : KarmaDone(e)
  \/ NextTick

Next ==
  \/ \E f \in TargetFiles : ApplyAmpConfigCall(f)
  \/ \E f \in TargetFiles : RemoveConfigDone(f)
  \/ \E f \in TargetFiles : ApplyConfigDone(f)
  \/ \E f \in TargetFiles : PatchRejected(f)
  \/ RunTestsNext

NextAdTypes == GetAdTypesCall

\* The whole 'test' task: applyAmpConfig twice, then runTests.
Spec == Init /\ [][Next]_vars

\* getAdTypes under every listing.
SpecAdTypes == InitAdTypes /\ [][NextAdTypes]_vars

----------------------------------------------------------------------------
(* Properties *)

AmpJs == "dist/amp.js"
V0Js == "dist/v0.js"

SauceFlag == argv.saucelabs \/ argv.saucelabs_lite
BrowserFlag == argv.safari \/ argv.firefox \/ argv.edge \/ argv.ie

\* runTests got past getConfig / got to its end.
AfterGetConfig == pc \in {"configured", "thrown"}
RunnerStarted == karmaStarted

\* C1: with --saucelabs and without --integration, the fake-response server
\* is never started and Karma is never constructed nor started, whatever the
\* other flags are; once runTests is over the run was aborted by the
\* credential check (a throw) or by process.exit.
C1_SauceLabsNeedsIntegration ==
  (argv.saucelabs /\ ~argv.integration) =>
     /\ ~serverStarted /\ ~karmaConstructed /\ ~karmaStarted
     /\ pc \notin {"running", "resolved"}
     /\ karmaExitCode = <<>>
     /\ (pc = "exited" => thrown = "" /\ exitStatus # <<>>)

\* Witness of C1: the abort by process.exit, with a browser flag, --files,
\* --unit and --watch set as well.
C1_Witness ==
  /\ argv.saucelabs /\ ~argv.integration
  /\ argv.safari /\ argv.files # <<>> /\ argv.unit /\ argv.watch
  /\ pc = "exited"
  /\ ~serverStarted

\* C2: every configuration error ends the run with a failure outcome: a run
\* aborted because --saucelabs is used without --integration, or because a
\* lab credential is missing, ends with a thrown error or a non-zero exit
\* status, never with exit status 0.
C2_ConfigErrorFails ==
  /\ (pc = "exited" /\ SauceLabsWithoutIntegration(argv) /\ ~karmaStarted) =>
        (thrown # "" \/ exitStatus[1] # 0)
  /\ (AfterGetConfig /\ sauceEnv.read
        /\ (~sauceEnv.SAUCE_USERNAME \/ ~sauceEnv.SAUCE_ACCESS_KEY)) =>
        (pc = "thrown" /\ thrown # "")

\* C3: once Karma's completion callback fired with exit code e, 'kill' was
\* emitted on the server before any exit, the exit status is e (for e # 0
\* the process is gone as soon as the callback ran, for e = 0 the deferred
\* is resolved and the exit status is 0), and no exit with another status
\* ever replaces e.
C3_ExitCodePropagated ==
  /\ karmaExitCode # <<>> =>
        /\ killEmitted
        /\ (exitStatus # <<>> => exitStatus = karmaExitCode)
        /\ (karmaExitCode[1] # 0 => exitStatus = karmaExitCode /\ ~deferredResolved)
        /\ (karmaExitCode[1] = 0 => deferredResolved)
  /\ (exitStatus # <<>> /\ serverStarted) => killEmitted

\* Witness of C3: Karma failed with 1, the process exited with 1 and the
\* queued process.exit() of the 'kill' handler never ran.
C3_Witness ==
  /\ karmaExitCode = <<1>>
  /\ exitStatus = <<1>>
  /\ killEmitted
  /\ nextTickQueue > 0

\* The selection mode the flags name, in the order of priority.
ModeOf(a) ==
  IF a.files # <<>> THEN "files"
  ELSE IF a.integration THEN "integration"
  ELSE IF a.unit THEN (IF a.saucelabs_lite THEN "unitOnSauce" ELSE "unit")
  ELSE IF a.randomize \/ a.glob \/ a.a4a THEN "glob"
  ELSE "default"

Modes == {"files", "integration", "unit", "unitOnSauce", "glob", "default"}

\* The test paths a mode contributes.
ModePaths(m, a) ==
  IF m = "files" THEN Range(a.files)
  ELSE IF m = "integration" THEN Range(integrationTestPaths)
  ELSE IF m = "unit" THEN Range(unitTestPaths)
  ELSE IF m = "unitOnSauce" THEN Range(unitTestOnSaucePaths)
  ELSE IF m = "glob" THEN GlobFiles
  ELSE Range(testPaths)

\* The command lines that differ from a only in flags of modes of lower
\* priority than the mode of a, and that reach file selection as well.
LowerPriorityVariants(a) ==
  LET m == ModeOf(a)
      ints == IF m = "files" THEN BOOLEAN ELSE {a.integration}
      units == IF m \in {"files", "integration"} THEN BOOLEAN ELSE {a.unit}
      free == m \in {"files", "integration", "unit", "unitOnSauce"}
  IN  IF ~free THEN {}
      ELSE {v \in {[a EXCEPT !.integration = i, !.unit = u, !.randomize = r,
                             !.glob = g, !.a4a = x, !.seed = sd] :
                      i \in ints, u \in units, r \in BOOLEAN, g \in BOOLEAN,
                      x \in BOOLEAN, sd \in {<<>>} \cup {<<k>> : k \in Seeds}} :
              ~(v.saucelabs /\ ~v.integration)}

\* C4: when file selection ran, exactly one mode contributed the test paths
\* of c.files, the first that matches in the order files, integration, unit
\* (lab-safe subset iff --saucelabs_lite), randomized/glob, default; no path
\* of another mode is in c.files, and the flags of a lower-priority mode do
\* not change c.files.
C4_OneSelectionMode ==
  pc = "running" =>
    LET m == ModeOf(argv)
        own == ModePaths(m, argv)
        shared == Range(chaiAsPromised) \cup Range(commonTestPaths) \cup Range(simpleTestPath)
    IN  /\ (Range(c.files) \ shared) \subseteq own
        /\ (m # "glob" => own \subseteq Range(c.files))
        /\ (m = "glob" => (Range(c.files) \ shared) \subseteq Range(globbed))
        /\ \A m2 \in Modes \ {m} : ModePaths(m2, argv) \cap Range(c.files) = {}
        /\ \A v \in LowerPriorityVariants(argv) :
              AppendSimpleTest(v, SelectFiles(v, <<>>, 0)) = c.files

\* Witness of C4: --files together with the flags of every other mode.
C4_Witness ==
  /\ pc = "running"
  /\ argv.files # <<>> /\ argv.integration /\ argv.unit
  /\ argv.randomize /\ argv.glob /\ argv.a4a /\ argv.seed # <<>>
  /\ Range(argv.files) \subseteq Range(c.files)

\* C5: in randomized mode with a caller-supplied --seed (0 included), the
\* seed passed to the shuffle is the caller's, the seed echoed in the log is
\* the one passed to the shuffle, and the order of c.files is the one that
\* seed and the globbed list determine (hence the same in every invocation).
C5_SeedReproducesOrder ==
  (RunnerStarted /\ Shuffles(argv) /\ argv.seed # <<>>) =>
     /\ seedUsed = argv.seed
     /\ seedLogged = seedUsed
     /\ c.files = AppendSimpleTest(argv,
                    (IF argv.saucelabs THEN <<>> ELSE chaiAsPromised) \o commonTestPaths
                      \o Splice1(Shuffle(globbed, argv.seed[1]),
                                 IndexOf(Shuffle(globbed, argv.seed[1]), initTests)))

\* C6: when Karma is started with --saucelabs or --saucelabs_lite, c.files
\* ends with the simple passing test, whatever the selection mode; with
\* neither flag the simple test is not in c.files.
C6_SimpleTestAppended ==
  RunnerStarted =>
    IF argv.saucelabs \/ argv.saucelabs_lite
    THEN /\ c.files # <<>>
         /\ Last(c.files) = simpleTestPath[1]
         /\ \A i \in 1..(Len(c.files) - 1) : c.files[i] # simpleTestPath[1]
    ELSE simpleTestPath[1] \notin Range(c.files)

\* Witness of C6: a --saucelabs_lite run in glob mode that found no file.
C6_Witness ==
  /\ RunnerStarted
  /\ argv.saucelabs_lite /\ ~argv.saucelabs
  /\ GlobMode(argv)
  /\ Last(c.files) = simpleTestPath[1]

\* The browser the first set browser flag names.
FirstBrowser ==
  IF argv.safari THEN "Safari"
  ELSE IF argv.firefox THEN "Firefox"
  ELSE IF argv.edge THEN "Edge"
  ELSE "IE"

CredentialsPresent ==
  sauceEnv.read /\ sauceEnv.SAUCE_USERNAME /\ sauceEnv.SAUCE_ACCESS_KEY

BrowserOverride ==
  /\ pc = "configured"
  /\ c.browsers = <<FirstBrowser>>
  /\ c.reporters = karmaDefault.reporters
  /\ ~sauceEnv.read

LabOverride ==
  /\ pc = "configured"
  /\ c.browsers = (IF argv.saucelabs THEN SauceLabsBrowsers ELSE SauceLabsLiteBrowsers)
  /\ c.reporters = SauceReporters

\* C7 as stated: browser override > remote-lab override (when a lab flag is
\* set and both credentials are present) > otherwise the default
\* configuration is returned.
C7_PrecedenceAsStated ==
  AfterGetConfig =>
    IF BrowserFlag THEN BrowserOverride
    ELSE IF SauceFlag /\ CredentialsPresent THEN LabOverride
    ELSE pc = "configured" /\ c = karmaDefault

\* C7, amended: as above, but with a lab flag set, no browser flag and a
\* credential missing getConfig returns nothing: it throws the error naming
\* the first missing credential.  The default configuration is returned
\* only when neither a browser flag nor a lab flag is set.
C7_Precedence ==
  AfterGetConfig =>
    IF BrowserFlag THEN BrowserOverride
    ELSE IF SauceFlag /\ CredentialsPresent THEN LabOverride
    ELSE IF SauceFlag
      THEN /\ pc = "thrown"
           /\ thrown = (IF ~sauceEnv.SAUCE_USERNAME THEN MissingUsername
                        ELSE MissingAccessKey)
    ELSE pc = "configured" /\ c = karmaDefault

\* Witness of C7: --edge and --ie with --saucelabs: Edge is selected and the
\* credentials were not read.
C7_Witness ==
  /\ pc = "configured"
  /\ argv.edge /\ argv.ie /\ ~argv.safari /\ ~argv.firefox /\ argv.saucelabs
  /\ c.browsers = <<"Edge">>
  /\ ~sauceEnv.read

\* A file has the extension .js.
HasJsExtension(f) ==
  Len(f) > Len(ExtJs) /\ SubSeq(f, Len(f) - Len(ExtJs) + 1, Len(f)) = ExtJs

\* The entries the claim gives one file of the listing.
ClaimedAdTypes(f) ==
  IF HasJsExtension(f) /\ f[1] # "_" /\ f # F_extern
  THEN LET base == SubSeq(f, 1, Len(f) - Len(ExtJs))
       IN  IF base = T_adblade THEN <<T_adblade, T_industrybrains>>
           ELSE IF base = T_mantis THEN <<T_mantis_display, T_mantis_recommend>>
           ELSE IF base = T_weborama THEN <<T_weborama_display>>
           ELSE <<base>>
  ELSE <<>>

RECURSIVE ClaimedAdTypesOf(_)
ClaimedAdTypesOf(listing) ==
  IF listing = <<>> THEN <<>>
  ELSE ClaimedAdTypes(Head(listing)) \o ClaimedAdTypesOf(Tail(listing))

\* C8: for every listing of ./ads/, getAdTypes returns adsense, doubleclick
\* and then, in listing order, for each file with extension .js that does
\* not start with "_" and is not ads.extern.js, its base name, or the
\* identifiers of the exception table when the base name is one of its keys
\* (adblade, mantis, weborama).
C8_AdTypesOfListing ==
  pc = "adTypesDone" =>
    adTypes = <<T_adsense, T_doubleclick>> \o ClaimedAdTypesOf(files)

Completed(f) == patch[f].exists = "no" \/ patch[f].applyConfig = "done"

\* C9: dist/amp.js is patched before the patching of dist/v0.js starts; the
\* server and Karma are started only after both patch steps completed; in a
\* patch step removeConfig completes before applyConfig starts; a missing
\* target is skipped (neither function is called on it), which does not
\* fail the run: the task moves on to the next stage.
C9_StagesInOrder ==
  /\ patch[V0Js].exists # "unknown" => Completed(AmpJs)
  /\ (serverStarted \/ karmaConstructed \/ karmaStarted
        \/ pc \in {"runTests", "configured", "thrown", "running", "resolved", "exited"})
       => (Completed(AmpJs) /\ Completed(V0Js))
  /\ \A f \in TargetFiles :
       /\ patch[f].applyConfig # "none" => patch[f].removeConfig = "done"
       /\ patch[f].exists = "no" =>
            /\ patch[f].removeConfig = "none" /\ patch[f].applyConfig = "none"
            /\ pc # StageOf(f)
  /\ pc = "rejected" =>
       \E f \in TargetFiles :
          /\ patch[f].exists = "yes"
          /\ (patch[f].removeConfig = "failed" \/ patch[f].applyConfig = "failed")

\* Witness of C9: dist/amp.js is missing and was skipped, dist/v0.js was
\* patched, and Karma runs.
C9_Witness ==
  /\ patch[AmpJs] = Skipped
  /\ patch[V0Js] = Patched
  /\ serverStarted /\ karmaStarted

\* Number of positions of s that hold x.
Count(s, x) == Cardinality({i \in 1..Len(s) : s[i] = x})

\* The globbed test files as they stand in c.files: after chaiAsPromised and
\* the common paths, before the simple test.
GlobbedInFiles ==
  SubSeq(c.files,
         (IF argv.saucelabs THEN 0 ELSE Len(chaiAsPromised)) + Len(commonTestPaths) + 1,
         Len(c.files) - (IF SauceFlag THEN Len(simpleTestPath) ELSE 0))

\* C10: in randomized/glob mode the test files in c.files are the globbed
\* files without test/_init_tests.js: every other globbed file is kept,
\* whether or not test/_init_tests.js is among the globbed files.
C10_OnlyInitTestsRemoved ==
  (RunnerStarted /\ GlobMode(argv)) =>
     /\ initTests \notin Range(GlobbedInFiles)
     /\ \A x \in GlobFiles \ {initTests} :
           Count(GlobbedInFiles, x) = Count(globbed, x)

====
